---------------------------- MODULE Spec2Model ----------------------------
(***************************************************************************)
(* A model of Backupper (src/backup.py): the incremental backup program    *)
(* that reads a job file, scans the source roots for files newer than      *)
(* their destination, asks for confirmation, copies with a pool of four    *)
(* worker threads and rescans until nothing is left over.                  *)
(*                                                                         *)
(* Python strings are sequences of one-character strings, so that          *)
(* path.find, os.path.basename, os.path.join and the slice in              *)
(* get_dest_path are computed as the code computes them.  Paths follow     *)
(* the Windows conventions the program is written for (xcopy, '\\').       *)
(***************************************************************************)
EXTENDS Integers, Sequences, FiniteSets, TLC

(***************************************************************************)
(* Bounds of the model.                                                    *)
(***************************************************************************)
\* modification times are 0..MaxTime (0 is the epoch)
MaxTime == 2
\* file sizes are 0..MaxSize bytes
MaxSize == 1
\* how many source files the environment may remove during the runs
MaxDeletes == 1
\* how many times the program is run in succession
MaxRuns == 2
\* longest root path drawn for the path-mapping specification
MaxLen == 5
\* how deep below its root a descendant is drawn there
MaxDepth == 2

\* ThreadPoolExecutor(max_workers=4)
max_workers == 4

(***************************************************************************)
(* Strings.                                                                *)
(***************************************************************************)
Sep == "\\"
\* ntpath accepts both separators
Seps == {"\\", "/"}
EmptyStr == << >>

Min(a, b) == IF a < b THEN a ELSE b
Max(a, b) == IF a > b THEN a ELSE b

\* s[k:] of Python, k possibly negative or past the end
Slice(s, k) ==
    LET start == IF k < 0 THEN Max(Len(s) + k, 0) ELSE Min(k, Len(s))
    IN  SubSeq(s, start + 1, Len(s))

\* str.find: the lowest index at which sub occurs in s, -1 when it does not
Find(s, sub) ==
    LET hits == { i \in 0..(Len(s) - Len(sub)) :
                    SubSeq(s, i + 1, i + Len(sub)) = sub }
    IN  IF Len(sub) > Len(s) \/ hits = {} THEN -1
        ELSE CHOOSE i \in hits : \A j \in hits : i <= j

\* os.path.basename (ntpath, no drive): what follows the last separator
Basename(p) ==
    LET seps == { i \in 1..Len(p) : p[i] \in Seps }
        last == IF seps = {} THEN 0 ELSE CHOOSE i \in seps : \A j \in seps : j <= i
    IN  SubSeq(p, last + 1, Len(p))

\* os.path.join(from_path, item) for a plain name item
Join(from_path, item) ==
    IF from_path = EmptyStr THEN item
    ELSE IF from_path[Len(from_path)] \in Seps THEN from_path \o item
    ELSE from_path \o <<Sep>> \o item

\* a faulty variant of get_dest_path: the slice starts one character late
GetDestPathOffByOne(backup_to, backup_from, start_of_base) ==
    backup_to \o <<Sep>> \o Slice(backup_from, start_of_base + 1)

\* get_dest_path
get_dest_path(backup_to, backup_from, start_of_base) ==
    backup_to \o <<Sep>> \o Slice(backup_from, start_of_base)

\* start_of_base = path.find(os.path.basename(path))
StartOfBase(path) == Find(path, Basename(path))

\* str.strip() of a line: blanks and the line end are whitespace
White == {" ", "\n"}
RECURSIVE LStrip(_)
LStrip(s) == IF s # EmptyStr /\ Head(s) \in White THEN LStrip(Tail(s)) ELSE s
RECURSIVE RStrip(_)
RStrip(s) ==
    IF s # EmptyStr /\ s[Len(s)] \in White THEN RStrip(SubSeq(s, 1, Len(s) - 1)) ELSE s
Strip(s) == LStrip(RStrip(s))

\* str.lower() on the answers the user can type
Lower(c) == IF c = "Y" THEN "y" ELSE IF c = "N" THEN "n" ELSE c

(***************************************************************************)
(* The file system.  One tree holds the sources and the destinations; a    *)
(* path that names nothing has kind "none".                                *)
(***************************************************************************)
DirA  == <<Sep, "a">>
DirB  == Join(DirA, <<"b">>)
DirC  == Join(DirA, <<"c">>)
FileF == Join(DirA, <<"f">>)
FileG == Join(DirB, <<"g">>)
FileH == Join(DirA, <<"h">>)
FileI == Join(DirA, <<"i">>)
FileJ == Join(DirA, <<"j">>)
FileK == Join(DirC, <<"k">>)
DestRoot == <<Sep, "t">>

SrcDirs  == {DirA, DirB, DirC}
SrcFiles == {FileF, FileG, FileH, FileI, FileJ, FileK}
SrcNodes == SrcDirs \cup SrcFiles

\* the names os.listdir can return for a directory, in the order it returns them
EntryNames(d) ==
    IF d = DirA THEN << <<"b">>, <<"c">>, <<"f">>, <<"h">>, <<"i">>, <<"j">> >>
    ELSE IF d = DirB THEN << <<"g">> >>
    ELSE IF d = DirC THEN << <<"k">> >>
    ELSE << >>

\* the root lists a job file may name
RootLists ==
    { << >>, <<DirA>>, <<DirB>>, <<FileF>>,
      <<DirA, DirA>>, <<DirA, DirB>>, <<DirB, DirA>> }

\* every path the program can compute as a destination
DestPaths ==
    { get_dest_path(to, p, k) : to \in {DestRoot, EmptyStr}, p \in SrcFiles,
                                k \in {StartOfBase(DirA), StartOfBase(DirB)} }
Paths == SrcNodes \cup DestPaths

NoNode == [kind |-> "none", mtime |-> 0, size |-> 0]
FileNode(t, sz) == [kind |-> "file", mtime |-> t, size |-> sz]
DirNode(t) == [kind |-> "dir", mtime |-> t, size |-> 0]

\* the job file: a header line, the destination, a header line, the roots
Line(s) == s \o <<"\n">>
Header == Line(<<"#">>)
RECURSIVE Lines(_)
Lines(roots) == IF roots = << >> THEN << >> ELSE <<Line(Head(roots))>> \o Lines(Tail(roots))
JobFile(to, roots) == [exists |-> TRUE, lines |-> <<Header, Line(to), Header>> \o Lines(roots)]
MissingJobFile == [exists |-> FALSE, lines |-> << >>]
JobFiles ==
    { MissingJobFile,
      [exists |-> TRUE, lines |-> << >>],
      [exists |-> TRUE, lines |-> <<Header>>],
      JobFile(EmptyStr, <<DirA>>) }
    \cup { JobFile(DestRoot, roots) : roots \in RootLists }

\* what read_backup_info returns: backup_from is a str ('') or a list
StrVal(s) == [type |-> "str", val |-> s]
ListVal(l) == [type |-> "list", val |-> l]

\* no uncaught exception
NoCrash == [call |-> "", error |-> ""]

VARIABLES
    backup_file,        \* the job file on disk
    fs,                 \* the file system: path -> node
    deletes_left,       \* how many source files the environment may still remove
    perms,              \* directory -> "r" listable, "-" denied, "?" not yet probed
    run,                \* which run of the program this is
    prev,               \* how the previous run ended
    pc,                 \* where the main thread is
    crash,              \* the uncaught exception that ended the run, if any
    job,                \* (backup_to, backup_from) as read_backup_info returned it
    root_idx,           \* scan: index of the root being scanned
    start_of_base,      \* scan: base offset of that root
    scan_list,          \* scan: directories still to list
    from_path,          \* scan: the directory being listed
    items,              \* get_modified_paths: names not yet checked
    modified_paths,     \* get_modified_paths: result so far
    items_to_backup,    \* the task list
    amount_to_back_up,  \* the running byte total
    listed,             \* directories os.listdir has listed in this scan
    perm_errors,        \* directories whose listing printed a permission error
    choice,             \* the user's answer to the confirmation, "" before
    printed,            \* what backup has printed in this run
    futures,            \* backup_with_threading: one future per submitted task
    queue,              \* the executor's work queue (indices of futures)
    worker,             \* worker thread -> index of the future it runs, 0 idle
    collected,          \* futures whose result the main thread has read
    reported,           \* futures whose error the main thread has printed
    ever_copied,        \* a copy command has been started in this run
    ri,                 \* rescan: index of the item being re-checked
    items_not_copied    \* rescan: result so far

envVars  == <<backup_file, fs, deletes_left, perms>>
runVars  == <<run, prev, pc, crash, job, choice, printed>>
scanVars == <<root_idx, start_of_base, scan_list, from_path, items, modified_paths,
              items_to_backup, amount_to_back_up, listed, perm_errors>>
poolVars == <<futures, queue, worker, collected, reported, ever_copied>>
rescanVars == <<ri, items_not_copied>>
vars == <<envVars, runVars, scanVars, poolVars, rescanVars>>

Workers == 1..max_workers

(***************************************************************************)
(* The initial states: the job file and the trees the program is run on.   *)
(***************************************************************************)
\* the destination of a file backed up under root DirA
DestUnderA(p) == get_dest_path(DestRoot, p, StartOfBase(DirA))

DirTimes  == {0, MaxTime}
FileTimes == 1..MaxTime
Sizes     == 0..MaxSize
\* a destination file: absent, or present with some modification time
DestStates == {NoNode} \cup { FileNode(t, 0) : t \in FileTimes }

\* the tree of a first backup: \a\f and \a\b\g are new, the destination is empty
FirstBackupTree ==
    [p \in Paths |->
       IF p \in {DirA, DirB} THEN DirNode(MaxTime)
       ELSE IF p \in {FileF, FileG} THEN FileNode(MaxTime, MaxSize)
       ELSE NoNode]

\* every job file, on the tree of a first backup
InitJobs ==
    /\ backup_file \in JobFiles
    /\ fs = FirstBackupTree
    /\ deletes_left = MaxDeletes

\* one root, \a, over every freshness and size of \a\f, \a\b and \a\b\g
InitTrees ==
    /\ backup_file = JobFile(DestRoot, <<DirA>>)
    /\ \E tb \in DirTimes, tf \in FileTimes, sf \in Sizes,
          df \in DestStates, dg \in DestStates :
         fs = [p \in Paths |->
                 IF p = DirA THEN DirNode(MaxTime)
                 ELSE IF p = DirB THEN DirNode(tb)
                 ELSE IF p = FileF THEN FileNode(tf, sf)
                 ELSE IF p = FileG THEN FileNode(MaxTime, MaxSize)
                 ELSE IF p = DestUnderA(FileF) THEN df
                 ELSE IF p = DestUnderA(FileG) THEN dg
                 ELSE NoNode]
    /\ deletes_left = MaxDeletes

\* a wide tree: five new files under one root, more than the pool has workers
InitWideTree ==
    /\ backup_file = JobFile(DestRoot, <<DirA>>)
    /\ fs = [p \in Paths |->
               IF p \in {DirA, DirB} THEN DirNode(MaxTime)
               ELSE IF p \in SrcFiles \ {FileK} THEN FileNode(MaxTime, MaxSize)
               ELSE NoNode]
    /\ deletes_left = 0

\* sibling directories: \a holds \a\b and \a\c, each with one new file
SiblingRootLists == { <<DirA>>, <<DirA, DirC>>, <<DirC, DirA>> }
InitSiblings ==
    /\ \E roots \in SiblingRootLists : backup_file = JobFile(DestRoot, roots)
    /\ fs = [p \in Paths |->
               IF p \in SrcDirs THEN DirNode(MaxTime)
               ELSE IF p \in {FileG, FileK} THEN FileNode(MaxTime, MaxSize)
               ELSE NoNode]
    /\ deletes_left = 0

InitLocals ==
    /\ pc = "start"
    /\ crash = NoCrash
    /\ job = <<EmptyStr, StrVal(EmptyStr)>>
    /\ choice = ""
    /\ printed = {}
    /\ root_idx = 0
    /\ start_of_base = 0
    /\ scan_list = << >>
    /\ from_path = EmptyStr
    /\ items = << >>
    /\ modified_paths = << >>
    /\ items_to_backup = << >>
    /\ amount_to_back_up = 0
    /\ listed = {}
    /\ perm_errors = {}
    /\ futures = << >>
    /\ queue = << >>
    /\ worker = [w \in Workers |-> 0]
    /\ collected = 0
    /\ reported = {}
    /\ ever_copied = FALSE
    /\ ri = 0
    /\ items_not_copied = << >>

Init ==
    /\ InitJobs \/ InitTrees \/ InitWideTree \/ InitSiblings
    /\ perms = [d \in SrcDirs |-> "?"]
    /\ run = 1
    /\ prev = "none"
    /\ InitLocals

(***************************************************************************)
(* File-system calls.                                                      *)
(***************************************************************************)
Node(p) == IF p \in DOMAIN fs THEN fs[p] ELSE NoNode
Exists(p) == Node(p).kind # "none"
IsDir(p) == Node(p).kind = "dir"
GetMTime(p) == Node(p).mtime
\* a faulty variant of GetSize: the size of the file is not counted
GetSizeNotCounted(p) == 0
\* os.path.getsize
GetSize(p) == Node(p).size

\* os.listdir(d): the names of the entries of d that exist
RECURSIVE Existing(_, _)
Existing(d, names) ==
    IF names = << >> THEN << >>
    ELSE IF Exists(Join(d, Head(names)))
         THEN <<Head(names)>> \o Existing(d, Tail(names))
         ELSE Existing(d, Tail(names))
ListDir(d) == Existing(d, EntryNames(d))

backup_to == job[1]
backup_from == job[2].val

\* the run ends with an exception that nothing catches: the call and the error
Raise(call, e) == pc' = "crashed" /\ crash' = [call |-> call, error |-> e]

(***************************************************************************)
(* read_backup_info and the test of its result in backup.                  *)
(***************************************************************************)
ReadBackupInfo ==
    /\ pc = "start"
    /\ pc' = "loaded"
    /\ job' = IF ~backup_file.exists
              THEN <<EmptyStr, StrVal(EmptyStr)>>
              ELSE LET lines == backup_file.lines
                       rest == IF Len(lines) > 3 THEN SubSeq(lines, 4, Len(lines)) ELSE << >>
                   IN  << Strip(IF Len(lines) >= 2 THEN lines[2] ELSE EmptyStr),
                          ListVal([i \in 1..Len(rest) |-> Strip(rest[i])]) >>
    /\ UNCHANGED <<envVars, run, prev, crash, choice, printed, scanVars, poolVars, rescanVars>>

\* (backup_to, backup_from) == ('', '')
NoJob == job = <<EmptyStr, StrVal(EmptyStr)>>

StartScan ==
    /\ pc = "loaded"
    /\ ~NoJob
    /\ pc' = "scan_root"
    /\ UNCHANGED <<envVars, run, prev, crash, job, choice, printed, scanVars, poolVars, rescanVars>>

SkipScan ==
    /\ pc = "loaded"
    /\ NoJob
    /\ pc' = "exit"
    /\ UNCHANGED <<envVars, run, prev, crash, job, choice, printed, scanVars, poolVars, rescanVars>>

(***************************************************************************)
(* scan and get_modified_paths.                                            *)
(***************************************************************************)
\* a faulty variant of NeedsCopy: an equal modification time counts as changed
NeedsCopyOrEqual(src_mod_time, dest_mod_time) == src_mod_time >= dest_mod_time

\* src_mod_time > dest_mod_time
NeedsCopy(src_mod_time, dest_mod_time) == src_mod_time > dest_mod_time

\* dest_mod_time in get_modified_paths
DestModTimeScan(new_path, dest_path) ==
    IF ~Exists(dest_path) \/ IsDir(new_path) THEN 0 ELSE GetMTime(dest_path)

\* a faulty variant of DestModTimeRescan: the destination is never looked at
DestModTimeRescanZero(dest) == 0

\* dest_mod_time in rescan
DestModTimeRescan(dest) == IF ~Exists(dest) THEN 0 ELSE GetMTime(dest)

\* a faulty variant of WorkListLeft: the loop stops with one entry left
WorkListLeftBeyondOne(list) == Len(list) > 1

\* while len(scan_list) != 0
WorkListLeft(list) == Len(list) # 0

\* a faulty variant of DelHead: the entry read is left on the work list
DelHeadKept(list) == list

\* del scan_list[0]
DelHead(list) == Tail(list)

\* for path in backup_from: compute the base offset, put the root on the work list
ScanNextRoot ==
    /\ pc = "scan_root"
    /\ root_idx < Len(backup_from)
    /\ LET path == backup_from[root_idx + 1] IN
         /\ start_of_base' = StartOfBase(path)
         /\ scan_list' = <<path>> \o scan_list
    /\ root_idx' = root_idx + 1
    /\ pc' = "scan_loop"
    /\ UNCHANGED <<envVars, run, prev, crash, job, choice, printed, from_path, items,
                   modified_paths, items_to_backup, amount_to_back_up, listed,
                   perm_errors, poolVars, rescanVars>>

\* the roots are exhausted: scan returns
ScanReturn ==
    /\ pc = "scan_root"
    /\ root_idx >= Len(backup_from)
    /\ pc' = "scanned"
    /\ UNCHANGED <<envVars, run, prev, crash, job, choice, printed, scanVars, poolVars,
                   rescanVars>>

\* while len(scan_list) != 0 is false: on to the next root
ScanListEmpty ==
    /\ pc = "scan_loop"
    /\ ~WorkListLeft(scan_list)
    /\ pc' = "scan_root"
    /\ UNCHANGED <<envVars, run, prev, crash, job, choice, printed, scanVars, poolVars,
                   rescanVars>>

\* pop the first directory and list it
ListDirOk ==
    /\ pc = "scan_loop"
    /\ WorkListLeft(scan_list)
    /\ IsDir(Head(scan_list))
    /\ perms[Head(scan_list)] # "-"
    /\ perms' = [perms EXCEPT ![Head(scan_list)] = "r"]
    /\ from_path' = Head(scan_list)
    /\ scan_list' = DelHead(scan_list)
    /\ items' = ListDir(Head(scan_list))
    /\ modified_paths' = << >>
    /\ listed' = listed \cup {Head(scan_list)}
    /\ pc' = "scan_check"
    /\ UNCHANGED <<backup_file, fs, deletes_left, run, prev, crash, job, choice, printed, root_idx, start_of_base,
                   items_to_backup, amount_to_back_up, perm_errors, poolVars, rescanVars>>

\* a faulty variant of ListDirDenied: the PermissionError is not caught
ListDirDeniedUncaught ==
    /\ pc = "scan_loop"
    /\ WorkListLeft(scan_list)
    /\ IsDir(Head(scan_list))
    /\ perms[Head(scan_list)] # "r"
    /\ perms' = [perms EXCEPT ![Head(scan_list)] = "-"]
    /\ from_path' = Head(scan_list)
    /\ scan_list' = DelHead(scan_list)
    /\ Raise("listdir", "PermissionError")
    /\ UNCHANGED <<backup_file, fs, deletes_left, run, prev, job, choice, printed, root_idx,
                   start_of_base, items, modified_paths, items_to_backup, amount_to_back_up,
                   listed, perm_errors, poolVars, rescanVars>>

\* os.listdir raises PermissionError: print it and continue with the work list
ListDirDenied ==
    /\ pc = "scan_loop"
    /\ WorkListLeft(scan_list)
    /\ IsDir(Head(scan_list))
    /\ perms[Head(scan_list)] # "r"
    /\ perms' = [perms EXCEPT ![Head(scan_list)] = "-"]
    /\ from_path' = Head(scan_list)
    /\ scan_list' = DelHead(scan_list)
    /\ perm_errors' = perm_errors \cup {Head(scan_list)}
    /\ UNCHANGED <<backup_file, fs, deletes_left, runVars, root_idx, start_of_base, items, modified_paths,
                   items_to_backup, amount_to_back_up, listed, poolVars, rescanVars>>

\* os.listdir of a file or of a missing path raises an error scan does not catch
ListDirRaises ==
    /\ pc = "scan_loop"
    /\ WorkListLeft(scan_list)
    /\ ~IsDir(Head(scan_list))
    /\ from_path' = Head(scan_list)
    /\ scan_list' = DelHead(scan_list)
    /\ Raise("listdir",
             IF Exists(Head(scan_list)) THEN "NotADirectoryError" ELSE "FileNotFoundError")
    /\ UNCHANGED <<envVars, run, prev, job, choice, printed, root_idx, start_of_base, items,
                   modified_paths, items_to_backup, amount_to_back_up, listed, perm_errors,
                   poolVars, rescanVars>>

\* one iteration of the loop of get_modified_paths
GetModifiedPathsStep ==
    /\ pc = "scan_check"
    /\ items # << >>
    /\ LET new_path == Join(from_path, Head(items))
           dest_path == get_dest_path(backup_to, new_path, start_of_base)
       IN  IF ~Exists(new_path)
           THEN \* os.path.getmtime(new_path) raises
                /\ Raise("getmtime", "FileNotFoundError")
                /\ UNCHANGED <<items, modified_paths>>
           ELSE /\ items' = Tail(items)
                /\ modified_paths' =
                     IF NeedsCopy(GetMTime(new_path), DestModTimeScan(new_path, dest_path))
                     THEN Append(modified_paths, new_path)
                     ELSE modified_paths
                /\ UNCHANGED <<pc, crash>>
    /\ UNCHANGED <<envVars, run, prev, job, choice, printed, root_idx, start_of_base,
                   scan_list, from_path, items_to_backup, amount_to_back_up, listed,
                   perm_errors, poolVars, rescanVars>>

\* for p in paths_to_copy: directories go onto the work list, files become tasks
RECURSIVE InsertPaths(_, _)
InsertPaths(paths, acc) ==
    IF paths = << >> \/ ~acc.ok THEN acc
    ELSE LET p == Head(paths)
             dest == get_dest_path(backup_to, p, start_of_base)
         IN  IF IsDir(p)
             THEN InsertPaths(Tail(paths), [acc EXCEPT !.sl = <<p>> \o acc.sl])
             ELSE IF ~Exists(p)
             THEN \* os.path.getsize(p) raises
                  [acc EXCEPT !.ok = FALSE]
             ELSE InsertPaths(Tail(paths),
                              [acc EXCEPT !.tasks = << <<p, dest>> >> \o acc.tasks,
                                          !.amount = acc.amount + GetSize(p)])

ScanInsert ==
    /\ pc = "scan_check"
    /\ items = << >>
    /\ LET r == InsertPaths(modified_paths,
                            [sl |-> scan_list, tasks |-> items_to_backup,
                             amount |-> amount_to_back_up, ok |-> TRUE])
       IN  IF r.ok
           THEN /\ scan_list' = r.sl
                /\ items_to_backup' = r.tasks
                /\ amount_to_back_up' = r.amount
                /\ pc' = "scan_loop"
                /\ UNCHANGED crash
           ELSE /\ Raise("getsize", "FileNotFoundError")
                /\ UNCHANGED <<scan_list, items_to_backup, amount_to_back_up>>
    /\ modified_paths' = << >>
    /\ UNCHANGED <<envVars, run, prev, job, choice, printed, root_idx, start_of_base,
                   from_path, items, listed, perm_errors, poolVars, rescanVars>>

(***************************************************************************)
(* backup: the report of the amount and the confirmation.                  *)
(***************************************************************************)
\* what the user can type at 'Do you want to backup now? (y/n) '
Answers == {"y", "Y", "n", "x"}

\* if amount_to_back_up > 0
WorthBackingUp == amount_to_back_up > 0

\* print('Amount to backup: ...'), then ask
ReportAmount ==
    /\ pc = "scanned"
    /\ WorthBackingUp
    /\ printed' = printed \cup {"amount"}
    /\ pc' = "confirm"
    /\ UNCHANGED <<envVars, run, prev, crash, job, choice, scanVars, poolVars, rescanVars>>

\* amount_to_back_up is 0: straight to "Everything's up to date!"
NothingToBackup ==
    /\ pc = "scanned"
    /\ ~WorthBackingUp
    /\ printed' = printed \cup {"uptodate"}
    /\ pc' = "exit"
    /\ UNCHANGED <<envVars, run, prev, crash, job, choice, scanVars, poolVars, rescanVars>>

\* a faulty variant of Affirmative: every answer but 'n' starts the copy
AffirmativeUnlessNo(c) == Lower(c) # "n"

\* choice.lower() == 'y'
Affirmative(c) == Lower(c) = "y"

Confirm(c) ==
    /\ pc = "confirm"
    /\ choice' = c
    /\ IF Affirmative(c)
       THEN /\ pc' = "loop"
            /\ UNCHANGED printed
       ELSE /\ pc' = "exit"
            /\ printed' = printed \cup {"uptodate"}
    /\ UNCHANGED <<envVars, run, prev, crash, job, scanVars, poolVars, rescanVars>>

(***************************************************************************)
(* backup_with_threading: the executor, its workers, and copy.             *)
(***************************************************************************)
\* a future: the task, who ran it and how the copy went
\*   state  : "queued", "running" or "done"
\*   execs  : how many times the work item was handed to a worker, which
\*            then started copy on it (2 stands for twice or more)
\*   rc     : the exit status of the copy command (-1: none yet, or not run)
\*   result : what copy returned, "None" or "error"
NewFuture(item) ==
    [item |-> item, state |-> "queued", execs |-> 0, rc |-> -1,
     result |-> "None"]

\* a faulty variant of SubmitAll: the comprehension stops one task short
SubmitAllButLast(tasks) == [i \in 1..(Len(tasks) - 1) |-> NewFuture(tasks[i])]

\* futures = [executor.submit(self.copy, f) for f in items_to_backup]
SubmitAll(tasks) == [i \in 1..Len(tasks) |-> NewFuture(tasks[i])]

\* the threads the executor has started: one per submit, max_workers at most
Started(w) == w <= Min(Len(futures), max_workers)

\* a faulty variant of LoopGoesOn: the loop body runs once at most
LoopGoesOnOnce(tasks) == Len(tasks) > 0 /\ futures = << >>

\* while len(items_to_backup) > 0
LoopGoesOn(tasks) == Len(tasks) > 0

\* the loop goes on: submit every task to a new executor
Submit ==
    /\ pc = "loop"
    /\ LoopGoesOn(items_to_backup)
    /\ futures' = SubmitAll(items_to_backup)
    /\ queue' = [i \in 1..Len(SubmitAll(items_to_backup)) |-> i]
    /\ collected' = 0
    /\ reported' = {}
    /\ pc' = "pool"
    /\ UNCHANGED <<envVars, run, prev, crash, job, choice, printed, scanVars, worker,
                   ever_copied, rescanVars>>

\* the loop ends: print the time and "Everything's up to date!"
LoopDone ==
    /\ pc = "loop"
    /\ ~LoopGoesOn(items_to_backup)
    /\ printed' = printed \cup {"time", "uptodate"}
    /\ pc' = "exit"
    /\ UNCHANGED <<envVars, run, prev, crash, job, choice, scanVars, poolVars, rescanVars>>

\* a faulty variant of NextWorkItem: the head is read but left in the queue
NextWorkItemKept(q) == q

\* an idle worker takes the head of the work queue
NextWorkItem(q) == Tail(q)

WorkerTake(w) ==
    /\ Started(w)
    /\ worker[w] = 0
    /\ queue # << >>
    /\ LET i == Head(queue) IN
         /\ worker' = [worker EXCEPT ![w] = i]
         /\ futures' = [futures EXCEPT ![i].state = "running",
                                       ![i].execs = Min(@ + 1, 2)]
    /\ queue' = NextWorkItem(queue)
    /\ ever_copied' = TRUE
    /\ UNCHANGED <<envVars, runVars, scanVars, collected, reported, rescanVars>>

\* xcopy succeeds: the destination is the source, with its modification time
CopyOk(w) ==
    /\ worker[w] # 0
    /\ LET item == futures[worker[w]].item IN
         /\ Node(item[1]).kind = "file"
         /\ item[2] \in DOMAIN fs
         /\ fs' = [fs EXCEPT ![item[2]] = FileNode(fs[item[1]].mtime, fs[item[1]].size)]
    /\ futures' = [futures EXCEPT ![worker[w]].state = "done", ![worker[w]].rc = 0]
    /\ worker' = [worker EXCEPT ![w] = 0]
    /\ UNCHANGED <<backup_file, deletes_left, perms, runVars, scanVars, queue, collected, reported,
                   ever_copied, rescanVars>>

\* subprocess.run is called without check=True: a failed command raises nothing
\* and copy returns None
CommandFailureResult == "None"

\* xcopy exits with an error and leaves the destination as it was
CopyCommandFails(w) ==
    /\ worker[w] # 0
    /\ futures' = [futures EXCEPT ![worker[w]].state = "done", ![worker[w]].rc = 1,
                                  ![worker[w]].result = CommandFailureResult]
    /\ worker' = [worker EXCEPT ![w] = 0]
    /\ UNCHANGED <<envVars, runVars, scanVars, queue, collected, reported, ever_copied,
                   rescanVars>>

\* print or subprocess.run raises an OSError: copy returns the error message
CopyRaisesOSError(w) ==
    /\ worker[w] # 0
    /\ futures' = [futures EXCEPT ![worker[w]].state = "done",
                                  ![worker[w]].result = "error"]
    /\ worker' = [worker EXCEPT ![w] = 0]
    /\ UNCHANGED <<envVars, runVars, scanVars, queue, collected, reported, ever_copied,
                   rescanVars>>

\* for future in futures: future.result() blocks until the future is done
CollectResult ==
    /\ pc = "pool"
    /\ collected < Len(futures)
    /\ futures[collected + 1].state = "done"
    /\ collected' = collected + 1
    /\ reported' = IF futures[collected + 1].result # "None"
                   THEN reported \cup {collected + 1}
                   ELSE reported
    /\ UNCHANGED <<envVars, runVars, scanVars, futures, queue, worker, ever_copied,
                   rescanVars>>

\* a faulty variant of PoolReturns: shutdown without waiting for the workers
PoolReturnsWithoutWaiting == TRUE

\* every result has been read and the with block has shut the executor down
\* (shutdown(wait=True) joins the workers)
PoolReturns ==
    /\ collected = Len(futures)
    /\ queue = << >>
    /\ \A w \in Workers : worker[w] = 0

\* backup_with_threading returns; rescan starts
PoolExit ==
    /\ pc = "pool"
    /\ PoolReturns
    /\ pc' = "rescan"
    /\ ri' = 1
    /\ items_not_copied' = << >>
    /\ UNCHANGED <<envVars, run, prev, crash, job, choice, printed, scanVars, poolVars>>

(***************************************************************************)
(* rescan.                                                                 *)
(***************************************************************************)
\* one iteration of the loop of rescan
RescanStep ==
    /\ pc = "rescan"
    /\ ri <= Len(items_to_backup)
    /\ LET item == items_to_backup[ri] IN
         IF ~Exists(item[1])
         THEN \* os.path.getmtime(src) raises
              /\ Raise("getmtime", "FileNotFoundError")
              /\ UNCHANGED <<ri, items_not_copied>>
         ELSE /\ ri' = ri + 1
              /\ items_not_copied' =
                   IF NeedsCopy(GetMTime(item[1]), DestModTimeRescan(item[2]))
                   THEN Append(items_not_copied, item)
                   ELSE items_not_copied
              /\ UNCHANGED <<pc, crash>>
    /\ UNCHANGED <<envVars, run, prev, job, choice, printed, scanVars, poolVars>>

\* items_to_backup = self.rescan(items_to_backup)
RescanReturn ==
    /\ pc = "rescan"
    /\ ri > Len(items_to_backup)
    /\ items_to_backup' = items_not_copied
    /\ items_not_copied' = << >>
    /\ ri' = 0
    /\ pc' = "loop"
    /\ UNCHANGED <<envVars, run, prev, crash, job, choice, printed, root_idx, start_of_base,
                   scan_list, from_path, items, modified_paths, amount_to_back_up, listed,
                   perm_errors, poolVars>>

(***************************************************************************)
(* The end of a run, the next run, and the environment.                    *)
(***************************************************************************)
\* input('---Press ENTER to exit---')
Exit ==
    /\ pc = "exit"
    /\ pc' = "done"
    /\ UNCHANGED <<envVars, run, prev, crash, job, choice, printed, scanVars, poolVars,
                   rescanVars>>

\* the program is started again on the file system the last run left
Rerun ==
    /\ pc = "done"
    /\ run < MaxRuns
    /\ run' = run + 1
    /\ prev' = IF choice # "" /\ ~Affirmative(choice) THEN "declined" ELSE "finished"
    /\ pc' = "start"
    /\ crash' = NoCrash
    /\ job' = <<EmptyStr, StrVal(EmptyStr)>>
    /\ choice' = ""
    /\ printed' = {}
    /\ root_idx' = 0
    /\ start_of_base' = 0
    /\ scan_list' = << >>
    /\ from_path' = EmptyStr
    /\ items' = << >>
    /\ modified_paths' = << >>
    /\ items_to_backup' = << >>
    /\ amount_to_back_up' = 0
    /\ listed' = {}
    /\ perm_errors' = {}
    /\ futures' = << >>
    /\ queue' = << >>
    /\ worker' = [w \in Workers |-> 0]
    /\ collected' = 0
    /\ reported' = {}
    /\ ever_copied' = FALSE
    /\ ri' = 0
    /\ items_not_copied' = << >>
    /\ UNCHANGED envVars

Running == pc \in {"scan_root", "scan_loop", "scan_check", "scanned", "confirm", "loop",
                   "pool", "rescan"}

\* another process removes a source file while the program runs
DeleteSource(f) ==
    /\ Running
    /\ deletes_left > 0
    /\ fs[f].kind = "file"
    /\ fs' = [fs EXCEPT ![f] = NoNode]
    /\ deletes_left' = deletes_left - 1
    /\ UNCHANGED <<backup_file, perms, runVars, scanVars, poolVars, rescanVars>>

Next ==
    \/ ReadBackupInfo
    \/ StartScan
    \/ SkipScan
    \/ ScanNextRoot
    \/ ScanReturn
    \/ ScanListEmpty
    \/ ListDirOk
    \/ ListDirDenied
    \/ ListDirRaises
    \/ GetModifiedPathsStep
    \/ ScanInsert
    \/ ReportAmount
    \/ NothingToBackup
    \/ \E c \in Answers : Confirm(c)
    \/ Submit
    \/ LoopDone
    \/ \E w \in Workers : WorkerTake(w)
    \/ \E w \in Workers : CopyOk(w)
    \/ \E w \in Workers : CopyCommandFails(w)
    \/ \E w \in Workers : CopyRaisesOSError(w)
    \/ CollectResult
    \/ PoolExit
    \/ RescanStep
    \/ RescanReturn
    \/ Exit
    \/ Rerun
    \/ \E f \in SrcFiles : DeleteSource(f)

Spec == Init /\ [][Next]_vars

(***************************************************************************)
(* The path mapping on its own: one root, written in any way, and one      *)
(* descendant reached through directories that are all new.  The job file  *)
(* is read and the base offset computed by the steps of the program; the   *)
(* descent is the work-list loop of scan on a tree where every child       *)
(* exists and is newer than its destination.                               *)
(***************************************************************************)
PathChars == {Sep, "a", "b"}
\* rooted paths with no empty component, with or without a trailing separator
RootStrings ==
    { r \in UNION { [1..n -> PathChars] : n \in 2..MaxLen } :
        /\ r[1] = Sep
        /\ \A i \in 1..(Len(r) - 1) : ~(r[i] = Sep /\ r[i + 1] = Sep) }
ChildNames == { <<"x">>, <<"y">> }

InitPath ==
    /\ \E r \in RootStrings : backup_file = JobFile(DestRoot, <<r>>)
    /\ fs = [p \in Paths |-> NoNode]
    /\ deletes_left = 0
    /\ perms = [d \in SrcDirs |-> "?"]
    /\ run = 1
    /\ prev = "none"
    /\ InitLocals

\* the directory at the head of the work list has a new sub-directory `name`:
\* it is listed, the child is joined, found modified and put on the work list
PathDescend(name) ==
    /\ pc = "scan_loop"
    /\ scan_list # << >>
    /\ Len(items) < MaxDepth - 1
    /\ from_path' = Head(scan_list)
    /\ scan_list' = <<Join(Head(scan_list), name)>> \o Tail(scan_list)
    /\ items' = Append(items, name)
    /\ UNCHANGED <<envVars, runVars, root_idx, start_of_base, modified_paths,
                   items_to_backup, amount_to_back_up, listed, perm_errors, poolVars,
                   rescanVars>>

\* the directory at the head of the work list has a new file `name`: it becomes a
\* task, with the destination get_dest_path gives it; scan then runs out of work
PathTask(name) ==
    /\ pc = "scan_loop"
    /\ scan_list # << >>
    /\ from_path' = Head(scan_list)
    /\ scan_list' = Tail(scan_list)
    /\ items' = Append(items, name)
    /\ LET p == Join(Head(scan_list), name) IN
         items_to_backup' =
             << <<p, get_dest_path(backup_to, p, start_of_base)>> >> \o items_to_backup
    /\ pc' = "scanned"
    /\ UNCHANGED <<envVars, run, prev, crash, job, choice, printed, root_idx, start_of_base,
                   modified_paths, amount_to_back_up, listed, perm_errors, poolVars,
                   rescanVars>>

NextPath ==
    \/ ReadBackupInfo
    \/ StartScan
    \/ ScanNextRoot
    \/ \E name \in ChildNames : PathDescend(name)
    \/ \E name \in ChildNames : PathTask(name)

SpecPath == InitPath /\ [][NextPath]_vars

(***************************************************************************)
(* scan on its own: the run up to the return of scan, with the environment *)
(* removing files meanwhile.  The main thread keeps running.               *)
(***************************************************************************)
ScanStep ==
    \/ ReadBackupInfo \/ StartScan \/ SkipScan
    \/ ScanNextRoot \/ ScanReturn \/ ScanListEmpty
    \/ ListDirOk \/ ListDirDenied \/ ListDirRaises
    \/ GetModifiedPathsStep \/ ScanInsert

NextScan ==
    \/ ReadBackupInfo
    \/ StartScan
    \/ SkipScan
    \/ ScanNextRoot
    \/ ScanReturn
    \/ ScanListEmpty
    \/ ListDirOk
    \/ ListDirDenied
    \/ ListDirRaises
    \/ GetModifiedPathsStep
    \/ ScanInsert
    \/ \E f \in SrcFiles : DeleteSource(f)

SpecScan == Init /\ [][NextScan]_vars /\ WF_vars(ScanStep)

(***************************************************************************)
(* Fairness: the main thread and every worker thread keep running; a copy  *)
(* command that was started ends, one way or the other.  Nothing obliges   *)
(* the environment to remove files or the user to start the program again. *)
(***************************************************************************)
MainStep ==
    \/ ReadBackupInfo \/ StartScan \/ SkipScan
    \/ ScanNextRoot \/ ScanReturn \/ ScanListEmpty
    \/ ListDirOk \/ ListDirDenied \/ ListDirRaises
    \/ GetModifiedPathsStep \/ ScanInsert
    \/ ReportAmount \/ NothingToBackup
    \/ \E c \in Answers : Confirm(c)
    \/ Submit \/ LoopDone \/ CollectResult \/ PoolExit
    \/ RescanStep \/ RescanReturn \/ Exit

WorkerStep(w) ==
    WorkerTake(w) \/ CopyOk(w) \/ CopyCommandFails(w) \/ CopyRaisesOSError(w)

FairSpec ==
    /\ Init /\ [][Next]_vars
    /\ WF_vars(MainStep)
    /\ \A w \in Workers : WF_vars(WorkerStep(w))

(***************************************************************************)
(* A first backup on its own: every job file, the destination empty, the   *)
(* same steps and the same fairness.                                       *)
(***************************************************************************)
InitFirstBackup == Init /\ fs = FirstBackupTree

SpecFirstBackup ==
    /\ InitFirstBackup /\ [][Next]_vars
    /\ WF_vars(MainStep)
    /\ \A w \in Workers : WF_vars(WorkerStep(w))

(***************************************************************************)
(* Notions the properties are stated with.                                 *)
(***************************************************************************)
Range(seq) == { seq[i] : i \in 1..Len(seq) }
IsPrefix(a, b) == Len(a) <= Len(b) /\ SubSeq(b, 1, Len(a)) = a

\* file f lies under the source root r (or is the root itself)
Under(f, r) == f = r \/ IsPrefix(r \o <<Sep>>, f)

\* the roots of the job that hold f
RootsOf(f) == { i \in 1..Len(backup_from) : Under(f, backup_from[i]) }

\* the destination counterpart of f as a descendant of the i-th root
Counterpart(f, i) == get_dest_path(backup_to, f, StartOfBase(backup_from[i]))

\* stale: the destination is absent, or the source is strictly newer
StalePair(f, d) == Exists(f) /\ (~Exists(d) \/ GetMTime(f) > GetMTime(d))
\* up to date: the destination exists and is not older than the source
UpToDatePair(f, d) == Exists(f) /\ Exists(d) /\ GetMTime(d) >= GetMTime(f)

\* how many tasks of a list have f as their source
Occurrences(f, tasks) == Cardinality({ i \in 1..Len(tasks) : tasks[i][1] = f })

\* f lies in a directory whose listing was denied
UnderDenied(f) == \E d \in perm_errors : Under(f, d)

ScanPhase == pc \in {"scan_root", "scan_loop", "scan_check", "scanned", "confirm"}

(***************************************************************************)
(* C1.  When scan has returned, every existing file under a source root    *)
(* that is stale against its destination counterpart (and does not lie in  *)
(* a directory whose listing was denied) is the source of exactly one task *)
(* of the task list.                                                       *)
(***************************************************************************)
C1_EveryStaleFileExactlyOnce ==
    pc = "scanned" =>
        \A f \in SrcFiles :
            ( /\ fs[f].kind = "file"
              /\ ~UnderDenied(f)
              /\ \E i \in RootsOf(f) : StalePair(f, Counterpart(f, i)) )
            => Occurrences(f, items_to_backup) = 1

(***************************************************************************)
(* C2.  No task list holds a file that is up to date: while scan builds    *)
(* the list and until the copies start, and in every list rescan builds    *)
(* and returns, no task has a destination that exists with a modification  *)
(* time greater than or equal to its source's.                             *)
(***************************************************************************)
C2_NoUpToDateTask ==
    /\ (ScanPhase \/ pc = "loop") =>
           \A t \in Range(items_to_backup) : ~UpToDatePair(t[1], t[2])
    /\ pc = "rescan" =>
           \A t \in Range(items_not_copied) : ~UpToDatePair(t[1], t[2])

\* rescan has dropped a task that became current and kept one that is stale
C2_Witness ==
    /\ pc = "loop"
    /\ items_to_backup # << >>
    /\ \E i \in 1..Len(futures) :
         /\ UpToDatePair(futures[i].item[1], futures[i].item[2])
         /\ futures[i].item \notin Range(items_to_backup)

(***************************************************************************)
(* C3.  The copy/rescan loop of backup terminates: once the loop has been  *)
(* entered, the run leaves it (whatever subset of the items fails on every *)
(* attempt), so that the items left over can be reported.                  *)
(***************************************************************************)
C3_LoopTerminates == (pc = "loop") ~> (pc \in {"exit", "crashed"})

(***************************************************************************)
(* C4.  Idempotence: in a run that follows a run which finished without    *)
(* the user declining, scan returns no task and a total of zero bytes.     *)
(***************************************************************************)
C4_SecondScanEmpty ==
    (run > 1 /\ prev = "finished" /\ pc = "scanned") =>
        (items_to_backup = << >> /\ amount_to_back_up = 0)

(***************************************************************************)
(* C5.  Every task of a batch is handed to a worker at most once, is run   *)
(* by at most one worker at a time, and when backup_with_threading has     *)
(* returned every task of the batch has been handed out exactly once, its  *)
(* copy has finished and its outcome has been read; the futures are the    *)
(* tasks of the batch, in order.                                           *)
(***************************************************************************)
C5_EachTaskExactlyOnce ==
    /\ \A i \in 1..Len(futures) :
         /\ futures[i].execs <= 1
         /\ Cardinality({ w \in Workers : worker[w] = i }) <= 1
         /\ futures[i].state = "running" <=> (\E w \in Workers : worker[w] = i)
         /\ futures[i].state = "queued" <=> futures[i].execs = 0
    /\ pc \in {"pool", "rescan"} =>
         /\ Len(futures) = Len(items_to_backup)
         /\ \A i \in 1..Len(futures) : futures[i].item = items_to_backup[i]
    /\ pc = "rescan" =>
         /\ collected = Len(futures)
         /\ \A i \in 1..Len(futures) :
              futures[i].execs = 1 /\ futures[i].state = "done"

\* a batch of more tasks than workers has been copied and collected
C5_Witness ==
    /\ pc = "rescan"
    /\ Len(futures) > max_workers
    /\ collected = Len(futures)
    /\ \A i \in 1..Len(futures) : futures[i].execs = 1 /\ futures[i].state = "done"

(***************************************************************************)
(* C6.  When backup_with_threading has returned, every task of the batch   *)
(* has been attempted, and every task whose copy command failed has an     *)
(* error outcome that the main thread has printed.                         *)
(***************************************************************************)
C6_FailureSurfaced ==
    pc = "rescan" =>
        \A i \in 1..Len(futures) :
            /\ futures[i].execs = 1
            /\ futures[i].rc = 1 => (futures[i].result = "error" /\ i \in reported)

(***************************************************************************)
(* C8.  A source that has vanished when its modification time is read, in  *)
(* get_modified_paths or in rescan, does not end the run: no run dies of   *)
(* the FileNotFoundError of os.path.getmtime.                              *)
(***************************************************************************)
C8_VanishedSourceNotFatal ==
    crash # [call |-> "getmtime", error |-> "FileNotFoundError"]

(***************************************************************************)
(* C9.  Copies are in flight only while the main thread is inside          *)
(* backup_with_threading: whenever it is anywhere else (in rescan, at the  *)
(* loop test, before the next batch is submitted) the work queue is empty, *)
(* no worker holds a task and every future of the last batch is done.      *)
(***************************************************************************)
C9_RescanAfterPool ==
    pc # "pool" =>
        /\ queue = << >>
        /\ \A w \in Workers : worker[w] = 0
        /\ \A i \in 1..Len(futures) : futures[i].state = "done"

\* rescan is re-checking a batch of several tasks that the pool has finished
C9_Witness ==
    /\ pc = "rescan"
    /\ ri > 1
    /\ Len(futures) > 1
    /\ \A i \in 1..Len(futures) : futures[i].state = "done"

\* the amount has been printed and the user has answered 'y' or 'Y'
Confirmed == "amount" \in printed /\ choice \in {"y", "Y"}
CopyActive ==
    \/ ever_copied
    \/ pc \in {"loop", "pool", "rescan"}
    \/ queue # << >>
    \/ \E w \in Workers : worker[w] # 0
DestinationChanges == fs' # fs /\ \E p \in Paths \ SrcNodes : fs'[p] # fs[p]

(***************************************************************************)
(* C10.  A copy is started, and a path outside the source tree changes,    *)
(* only after the amount has been printed and the user has answered 'y'    *)
(* (in either case); after any other answer no copy is ever started.       *)
(***************************************************************************)
C10_CopyOnlyAfterYes ==
    [][ /\ CopyActive' => Confirmed'
        /\ DestinationChanges => Confirmed ]_vars

\* the user declined a backup that had tasks: the run ended without a copy
C10_Witness ==
    /\ pc = "done"
    /\ "amount" \in printed
    /\ choice \in {"n", "x"}
    /\ items_to_backup # << >>
    /\ ~ever_copied

\* R without a trailing separator
RECURSIVE TrimSep(_)
TrimSep(r) ==
    IF r # EmptyStr /\ r[Len(r)] \in Seps THEN TrimSep(SubSeq(r, 1, Len(r) - 1)) ELSE r
\* x/y: the names joined by separators, each after a separator
RECURSIVE Relative(_)
Relative(names) ==
    IF names = << >> THEN EmptyStr ELSE <<Sep>> \o Head(names) \o Relative(Tail(names))

(***************************************************************************)
(* C7.  Path round trip: the destination scan computes for a descendant    *)
(* R/x/y of a source root R is destRoot/basename(R)/x/y, where basename(R) *)
(* is the last component of R, however R is written.                       *)
(***************************************************************************)
C7_PathRoundTrip ==
    (pc = "scanned" /\ items_to_backup # << >>) =>
        items_to_backup[1][2] =
            backup_to \o <<Sep>> \o Basename(TrimSep(backup_from[1])) \o Relative(items)

\* every directory from the i-th root down to the one that holds f was listed
ListedFrom(f, i) ==
    \A d \in SrcDirs : (Under(d, backup_from[i]) /\ Under(f, d)) => d \in listed

\* a directory between the i-th root and f was denied
DeniedFrom(f, i) ==
    \E d \in perm_errors : Under(d, backup_from[i]) /\ Under(f, d)

\* the listing of a directory has just been denied
DeniedStep == perm_errors' # perm_errors /\ perm_errors' # {}

\* no file is a task of a root below which a directory on the way down to it
\* was denied; when scan has returned the work list
\* is empty, every root was processed, every modified sub-directory of a listed
\* directory was processed and every stale file reached through listed
\* directories is a task
NoTaskUnderDenied ==
    /\ crash.error # "PermissionError"
    /\ \A f \in SrcFiles : \A i \in RootsOf(f) :
         DeniedFrom(f, i) => <<f, Counterpart(f, i)>> \notin Range(items_to_backup)
    /\ pc = "scanned" =>
         /\ scan_list = << >>
         /\ \A i \in 1..Len(backup_from) : backup_from[i] \in listed \cup perm_errors
         /\ \A d \in listed : \A i \in 1..Len(ListDir(d)) :
              LET child == Join(d, ListDir(d)[i]) IN
                (IsDir(child) /\ GetMTime(child) > 0) => child \in listed \cup perm_errors
         /\ \A f \in SrcFiles : \A i \in RootsOf(f) :
              (ListedFrom(f, i) /\ StalePair(f, Counterpart(f, i)))
                  => <<f, Counterpart(f, i)>> \in Range(items_to_backup)

(***************************************************************************)
(* C11.  A PermissionError of os.listdir in scan is not fatal: the step    *)
(* that meets it adds no task and no bytes and goes back to the work-list  *)
(* loop with the rest of the work list; no file of the denied subtree is   *)
(* ever a task, and scan still processes every other directory on the work *)
(* list and every remaining root and returns their stale files.            *)
(***************************************************************************)
C11_PermissionDeniedNonFatal ==
    [][ /\ NoTaskUnderDenied'
        /\ DeniedStep =>
             /\ pc' = "scan_loop"
             /\ crash' = NoCrash
             /\ scan_list' = Tail(scan_list)
             /\ items_to_backup' = items_to_backup
             /\ amount_to_back_up' = amount_to_back_up ]_vars

\* \a\c was denied with \a\b still on the work list; \a\b was then listed and
\* its new file returned
C11_Witness ==
    /\ pc = "scanned"
    /\ perm_errors = {DirC}
    /\ DirB \in listed
    /\ <<FileG, Counterpart(FileG, 1)>> \in Range(items_to_backup)
    /\ \A t \in Range(items_to_backup) : t[1] # FileK

\* scan has been called in this run
ScanCalled == pc \in {"scan_root", "scan_loop", "scan_check", "scanned"}

(***************************************************************************)
(* C12.  scan is called only for a job: never when the backup file is      *)
(* missing or empty, or names no destination or no source root.            *)
(***************************************************************************)
C12_NoJobSkipsScan ==
    ScanCalled =>
        /\ backup_file.exists
        /\ backup_file.lines # << >>
        /\ backup_to # EmptyStr
        /\ Len(backup_from) > 0

\* the sub-directories os.listdir(d) returns
SubDirs(d) == { c \in SrcDirs : IsDir(c) /\ \E n \in Range(ListDir(d)) : c = Join(d, n) }

(***************************************************************************)
(* C13.  When scan has returned, every sub-directory of a directory it     *)
(* listed has itself been put on the work list and processed (listed, or   *)
(* its listing denied), whatever its modification time and whether or not  *)
(* its destination exists.                                                 *)
(***************************************************************************)
C13_EveryDirectoryExplored ==
    pc = "scanned" =>
        \A d \in listed : \A c \in SubDirs(d) : c \in listed \cup perm_errors

\* a step of the work-list loop of scan changes the work list only by removing
\* its first entry (when the entry is listed) or by putting sub-directories of
\* the directory just listed in front of it (when its modified paths are sorted)
WorkListStep ==
    /\ (pc = "scan_loop" /\ scan_list # << >> /\ fs' = fs) =>
           scan_list' = Tail(scan_list)
    /\ (pc = "scan_check" /\ pc' = "scan_loop") =>
           \E k \in 0..Len(scan_list') :
               /\ SubSeq(scan_list', k + 1, Len(scan_list')) = scan_list
               /\ \A j \in 1..k : scan_list'[j] \in SubDirs(from_path)
               /\ \A i, j \in 1..k : scan_list'[i] = scan_list'[j] => i = j
    /\ (pc = "scan_check" /\ pc' # "scan_loop") => scan_list' = scan_list

LastBatch == [i \in 1..Len(futures) |-> futures[i].item]

\* list a is list b with some items left out, the others in their order
KeptOf(a, b) ==
    LET Kept(t) == t \in Range(a) IN a = SelectSeq(b, Kept)

\* of the items whose source is still there, a holds exactly the stale ones of b
StaleOnesOf(a, b) ==
    \A t \in Range(b) :
        Exists(t[1]) => (t \in Range(a) <=> StalePair(t[1], t[2]))

(***************************************************************************)
(* C15.  rescan re-checks the items of the batch just attempted and        *)
(* nothing else: what it has built so far, and what it returns to the      *)
(* loop, is the batch with some items left out, and holds exactly those    *)
(* items that are still stale; the loop submits a batch only when that     *)
(* list is not empty and ends only when it is empty.                       *)
(***************************************************************************)
C15_RescanSubList ==
    /\ pc = "rescan" =>
         /\ ri \in 1..(Len(items_to_backup) + 1)
         /\ KeptOf(items_not_copied, SubSeq(items_to_backup, 1, ri - 1))
         /\ StaleOnesOf(items_not_copied, SubSeq(items_to_backup, 1, ri - 1))
    /\ (pc = "loop" /\ futures # << >>) =>
         /\ KeptOf(items_to_backup, LastBatch)
         /\ StaleOnesOf(items_to_backup, LastBatch)
    /\ pc = "pool" => items_to_backup # << >>
    /\ (pc \in {"exit", "done"} /\ "time" \in printed) => items_to_backup = << >>

\* rescan has returned a shorter, non-empty list: one item of the batch became
\* current and was dropped, another is still stale and was kept
C15_Witness ==
    /\ pc = "loop"
    /\ Len(futures) >= 2
    /\ items_to_backup # << >>
    /\ Len(items_to_backup) < Len(futures)
    /\ \E t \in Range(LastBatch) : UpToDatePair(t[1], t[2]) /\ t \notin Range(items_to_backup)
    /\ \E t \in Range(items_to_backup) : StalePair(t[1], t[2])

\* the copy of every task of the batch in the pool has succeeded
AllSucceeded == pc = "pool" /\ \A i \in 1..Len(futures) : futures[i].rc = 0

\* rescan has gone through the batch and found items still stale
LeftOver == pc = "rescan" /\ ri > Len(items_to_backup) /\ items_not_copied # << >>

\* the pool has attempted every item of the batch it was given
BatchAttempted ==
    /\ pc = "pool"
    /\ LastBatch = items_to_backup
    /\ \A i \in 1..Len(futures) : futures[i].state = "done" /\ futures[i].execs = 1

\* the loop has ended, by its test
LoopEnded == pc \in {"exit", "done"} /\ "time" \in printed

\* what rescan makes of the outcomes of a pass, and what holds when the loop ends
RetryOutcome ==
    /\ (pc = "loop" /\ futures # << >>) =>
         \A i \in 1..Len(futures) :
             LET t == futures[i].item IN
               /\ (futures[i].rc # 0 /\ StalePair(t[1], t[2])) => t \in Range(items_to_backup)
               /\ futures[i].rc = 0 => t \notin Range(items_to_backup)
               /\ (futures[i].rc = 0 /\ Exists(t[1])) => UpToDatePair(t[1], t[2])
    /\ LoopEnded =>
         \A f \in SrcFiles : \A i \in RootsOf(f) :
             (Exists(f) /\ ListedFrom(f, i)) => UpToDatePair(f, Counterpart(f, i))

(***************************************************************************)
(* C16.  Retry recovery: an item whose copy failed and that rescan finds   *)
(* still stale is in the list rescan returns, and the items left over are  *)
(* attempted again by the pool in the next pass; an item whose copy        *)
(* succeeded is dropped by the rescan that follows; once the copy of every *)
(* item of a batch has succeeded the loop comes to its end, and when it    *)
(* has ended every file that scan reached is current at its destination.   *)
(***************************************************************************)
C16_RetryRecovery ==
    /\ []RetryOutcome
    /\ LeftOver ~> (BatchAttempted \/ pc = "crashed")
    /\ AllSucceeded ~> (pc \in {"exit", "crashed"})

\* the loop is about to end after a retry pass: the last batch was the one item
\* left over from the first pass, its copy succeeded, and both new files of the
\* first backup are now current at the destination
C16_Witness ==
    /\ pc = "loop"
    /\ items_to_backup = << >>
    /\ Len(futures) = 1
    /\ futures[1].rc = 0
    /\ UpToDatePair(FileF, DestUnderA(FileF))
    /\ UpToDatePair(FileG, DestUnderA(FileG))

\* the sum of the sizes on disk of the sources of a task list
RECURSIVE SumOfSizes(_)
SumOfSizes(tasks) ==
    IF tasks = << >> THEN 0 ELSE Node(Head(tasks)[1]).size + SumOfSizes(Tail(tasks))

DestMapped(t) ==
    \E i \in RootsOf(t[1]) :
        t[2] = get_dest_path(backup_to, t[1], StartOfBase(backup_from[i]))

\* every task the run holds: in the task list, in the batch of the pool, in rescan
TasksHeld ==
    Range(items_to_backup) \cup Range(items_not_copied) \cup Range(LastBatch)

(***************************************************************************)
(* C18.  The destination of every task, in the list scan builds and in     *)
(* every batch and rescan result after it, is get_dest_path(backup_to,     *)
(* source, start_of_base) with the base offset of a source root that holds *)
(* the file.  The work list is empty whenever scan moves on to the next    *)
(* root; while a root is scanned, start_of_base is that root's offset and  *)
(* the work list and the directory being listed lie under that root; and   *)
(* rescan hands on pairs of the batch, unchanged.                          *)
(***************************************************************************)
C18_DestinationFromRootOffset ==
    /\ \A t \in TasksHeld : DestMapped(t)
    /\ pc \in {"scan_root", "scanned"} => scan_list = << >>
    /\ pc \in {"scan_loop", "scan_check"} =>
         /\ start_of_base = StartOfBase(backup_from[root_idx])
         /\ \A d \in Range(scan_list) : Under(d, backup_from[root_idx])
         /\ pc = "scan_check" => Under(from_path, backup_from[root_idx])
    /\ pc = "rescan" => Range(items_not_copied) \subseteq Range(items_to_backup)
    /\ (pc = "loop" /\ futures # << >>) => Range(items_to_backup) \subseteq Range(LastBatch)

\* scan has returned from two roots with different base offsets, and a rescan
\* batch still holds a task of each
C18_Witness ==
    /\ pc = "loop"
    /\ futures # << >>
    /\ Len(backup_from) = 2
    /\ StartOfBase(backup_from[1]) # StartOfBase(backup_from[2])
    /\ \E t1, t2 \in Range(items_to_backup) :
         /\ t1[2] = get_dest_path(backup_to, t1[1], StartOfBase(backup_from[1]))
         /\ t2[2] = get_dest_path(backup_to, t2[1], StartOfBase(backup_from[2]))
         /\ t1[2] # t2[2]

(***************************************************************************)
(* C19.  "Everything's up to date!" is printed only when nothing is left   *)
(* to copy: never after the user has declined the confirmation, and never  *)
(* while the task list still holds items.                                  *)
(***************************************************************************)
C19_UpToDateReportTruthful ==
    "uptodate" \in printed =>
        /\ choice \in {"", "y", "Y"}
        /\ items_to_backup = << >>
        /\ \A f \in SrcFiles : \A i \in RootsOf(f) :
             ListedFrom(f, i) => ~StalePair(f, Counterpart(f, i))

=============================================================================
